---- MODULE Spec2Model ----
(***************************************************************************)
(* Clip.Cafe batch scraper-downloader (script.py): the ledger writer and   *)
(* reader (data.csv), the identifier allocator (next_id), the download     *)
(* watcher (wait_download), the per-clip pipeline (handle_clip) and the    *)
(* batch driver (run_batch), as a state machine.                           *)
(*                                                                         *)
(* Text is a sequence of characters; a character is a one-element string.  *)
(* A run of ordinary characters that no reader or writer looks into (a     *)
(* column name, a title) is carried as one ordinary symbol.                *)
(***************************************************************************)
EXTENDS Integers, Sequences, FiniteSets, TLC

\* ------------------------------------------------------------ bounds
\* Targets in a batch (urls has 1..MaxTargets entries).
MaxTargets == 3
\* Longest time one time.sleep(1) may take, in seconds (never less than 1).
MaxSleep == 2
\* Longest text field drawn for the ledger round trip.
MaxLen == 3
\* Data rows of the ledgers drawn for the allocator, and appends in a row.
MaxRows == 2
\* Runs of the script, one after the other, on the same ledger and directory.
MaxRuns == 2
\* Clips acquired before the first run.
MaxPrior == 1
\* Targets in a batch where several runs follow one another.
RunTargets == 2

\* ------------------------------------------------------------ settings
WAIT_SECS == 15
LOGIN_WAIT_SECS == 60

\* ------------------------------------------------------------ characters
COMMA == ","
QUOTE == "\""
BACKSLASH == "\\"
CR == "\r"
LF == "\n"
\* The reader's end-of-line marker (never a character of a file).
EOL == "EOL"

DigitChars == <<"0", "1", "2", "3", "4", "5", "6", "7", "8", "9">>

RECURSIVE Concat(_)
\* "".join(parts)
Concat(parts) ==
    IF parts = <<>> THEN <<>> ELSE Head(parts) \o Concat(Tail(parts))

RECURSIVE Join(_, _)
\* sep.join(parts)
Join(parts, sep) ==
    IF parts = <<>> THEN <<>>
    ELSE IF Len(parts) = 1 THEN Head(parts)
    ELSE Head(parts) \o sep \o Join(Tail(parts), sep)

Max(S) == CHOOSE m \in S : \A x \in S : x <= m

\* ------------------------------------------------------------ integers as text
RECURSIVE StrInt(_)
\* str(n) for n >= 0: the decimal digits, no padding.
StrInt(n) ==
    IF n < 10 THEN <<DigitChars[n + 1]>>
    ELSE StrInt(n \div 10) \o <<DigitChars[(n % 10) + 1]>>

\* f"{n:02d}": the decimal digits, zero-padded to two.
Fmt02d(n) == IF n < 10 THEN <<"0">> \o StrInt(n) ELSE StrInt(n)

IsDigit(c) == \E k \in 1..10 : DigitChars[k] = c

DigitVal(c) == (CHOOSE k \in 1..10 : DigitChars[k] = c) - 1

RECURSIVE DigitsVal(_, _)
DigitsVal(s, acc) ==
    IF s = <<>> THEN acc ELSE DigitsVal(Tail(s), 10 * acc + DigitVal(Head(s)))

\* int(s): the value as a one-element set, or {} where int() raises
\* ValueError (the empty string, any character that is not a digit).
ParseInt(s) ==
    IF s # <<>> /\ \A k \in 1..Len(s) : IsDigit(s[k])
    THEN {DigitsVal(s, 0)}
    ELSE {}

\* ------------------------------------------------------------ ledger writer
header == << <<"id">>, <<"Actor Name">>, <<"Movie Name">>, <<"Line">>, <<"Duration">> >>

lineterminator == <<CR, LF>>

\* csv.writer, one character of one field: what is written for it.
\* quotechar is doubled (doublequote), escapechar is escaped by escapechar.
EscChar(c) ==
    IF c = QUOTE THEN <<QUOTE, QUOTE>>
    ELSE IF c = BACKSLASH THEN <<BACKSLASH, BACKSLASH>>
    ELSE <<c>>

\* QUOTE_MINIMAL: the characters that make the writer quote the field.
NeedsQuote(c) == c = COMMA \/ c = QUOTE \/ c = CR \/ c = LF

\* csv.writer, one field, quoting=QUOTE_MINIMAL, escapechar="\\".
WriteField(f) ==
    LET body == Concat([k \in 1..Len(f) |-> EscChar(f[k])])
        quoted == \E k \in 1..Len(f) : NeedsQuote(f[k])
    IN  IF quoted THEN <<QUOTE>> \o body \o <<QUOTE>> ELSE body

\* csv.writer.writerow: the fields joined by the delimiter, then "\r\n".
WriteRow(fields) ==
    Join([k \in 1..Len(fields) |-> WriteField(fields[k])], <<COMMA>>) \o lineterminator

\* DictWriter.writerow({"id": idx, ...}): the values in header order, str()'d.
RowFields(idx, actor, movie, line, dur) == <<StrInt(idx), actor, movie, line, dur>>

\* ------------------------------------------------------------ ledger reader
\* csv.reader's states (default dialect: no escapechar, doublequote).
START_RECORD == "START_RECORD"
START_FIELD == "START_FIELD"
IN_FIELD == "IN_FIELD"
IN_QUOTED_FIELD == "IN_QUOTED_FIELD"
QUOTE_IN_QUOTED_FIELD == "QUOTE_IN_QUOTED_FIELD"
EAT_CRNL == "EAT_CRNL"

ReaderInit == [state |-> START_RECORD, field |-> <<>>, fields |-> <<>>,
               rows |-> <<>>, err |-> FALSE]

SaveField(st) == [st EXCEPT !.fields = Append(st.fields, st.field), !.field = <<>>]

IsNewline(c) == c = CR \/ c = LF

\* parse_process_char, from START_FIELD on.
ProcessFrom(st, c) ==
    CASE st.state = START_FIELD ->
           IF IsNewline(c) \/ c = EOL
           THEN [SaveField(st) EXCEPT !.state = IF c = EOL THEN START_RECORD ELSE EAT_CRNL]
           ELSE IF c = QUOTE THEN [st EXCEPT !.state = IN_QUOTED_FIELD]
           ELSE IF c = COMMA THEN SaveField(st)
           ELSE [st EXCEPT !.field = Append(st.field, c), !.state = IN_FIELD]
      [] st.state = IN_FIELD ->
           IF IsNewline(c) \/ c = EOL
           THEN [SaveField(st) EXCEPT !.state = IF c = EOL THEN START_RECORD ELSE EAT_CRNL]
           ELSE IF c = COMMA THEN [SaveField(st) EXCEPT !.state = START_FIELD]
           ELSE [st EXCEPT !.field = Append(st.field, c)]
      [] st.state = IN_QUOTED_FIELD ->
           IF c = EOL THEN st
           ELSE IF c = QUOTE THEN [st EXCEPT !.state = QUOTE_IN_QUOTED_FIELD]
           ELSE [st EXCEPT !.field = Append(st.field, c)]
      [] st.state = QUOTE_IN_QUOTED_FIELD ->
           IF c = QUOTE
           THEN [st EXCEPT !.field = Append(st.field, c), !.state = IN_QUOTED_FIELD]
           ELSE IF c = COMMA THEN [SaveField(st) EXCEPT !.state = START_FIELD]
           ELSE IF IsNewline(c) \/ c = EOL
           THEN [SaveField(st) EXCEPT !.state = IF c = EOL THEN START_RECORD ELSE EAT_CRNL]
           ELSE [st EXCEPT !.field = Append(st.field, c), !.state = IN_FIELD]
      [] st.state = EAT_CRNL ->
           IF IsNewline(c) THEN st
           ELSE IF c = EOL THEN [st EXCEPT !.state = START_RECORD]
           ELSE [st EXCEPT !.err = TRUE]
      [] OTHER -> st

\* parse_process_char: one character, or EOL after each line of the file.
ProcessChar(st, c) ==
    IF st.state = START_RECORD
    THEN IF c = EOL THEN st
         ELSE IF IsNewline(c) THEN [st EXCEPT !.state = EAT_CRNL]
         ELSE ProcessFrom([st EXCEPT !.state = START_FIELD], c)
    ELSE ProcessFrom(st, c)

\* Reader_iternext returns the record when a line ends in START_RECORD.
EmitRecord(s) ==
    IF s.state = START_RECORD
    THEN [s EXCEPT !.rows = Append(s.rows, s.fields), !.fields = <<>>, !.field = <<>>]
    ELSE s

EndLine(st) == EmitRecord(ProcessChar(st, EOL))

\* A file opened with newline="" yields lines ending at "\n", "\r\n" or a
\* lone "\r"; the reader is fed each line's characters, then EOL.
EndsLine(text, k) ==
    \/ text[k] = LF
    \/ text[k] = CR /\ (k = Len(text) \/ text[k + 1] # LF)

AfterChar(text, k, s) == IF EndsLine(text, k) THEN EndLine(s) ELSE s

\* End of input inside a record: what was read of it is returned.
AtEndOfInput(s) ==
    IF s.state # START_RECORD /\ (s.field # <<>> \/ s.state = IN_QUOTED_FIELD)
    THEN [s EXCEPT !.rows = Append(s.rows, Append(s.fields, s.field))]
    ELSE s

RECURSIVE ReadFrom(_, _, _)
ReadFrom(text, k, st) ==
    IF st.err THEN st
    ELSE IF k > Len(text)
    THEN \* a last line without terminator still gets its EOL
         AtEndOfInput(IF k > 1 /\ ~EndsLine(text, k - 1) THEN EndLine(st) ELSE st)
    ELSE ReadFrom(text, k + 1, AfterChar(text, k, ProcessChar(st, text[k])))

\* csv.reader(f) run over the whole file: [rows, err, ...].
Parse(text) == ReadFrom(text, 1, ReaderInit)

\* list(csv.reader(f)): the records of the file, each a sequence of fields.
ReadRecords(text) == Parse(text).rows

ReadError(text) == Parse(text).err

\* csv.DictReader skips the records that are [] (blank lines).
NonBlank(recs) == SelectSeq(recs, LAMBDA r : r # <<>>)

\* ------------------------------------------------------------ identifier allocator
\* Position of the last "id" among the field names, 0 if there is none
\* (dict(zip(fieldnames, row)) keeps the last of equal keys).
LastIdCol(names) ==
    LET S == {k \in 1..Len(names) : names[k] = <<"id">>}
    IN  IF S = {} THEN 0 ELSE Max(S)

\* Position of the first "id" column (pandas renames a repeated name).
FirstIdCol(names) ==
    LET S == {k \in 1..Len(names) : names[k] = <<"id">>}
    IN  IF S = {} THEN 0 ELSE CHOOSE k \in S : \A j \in S : k <= j

\* The id value of each data row, <<>> where the row is too short.
IdValues(recs, col) ==
    IF col = 0 \/ recs = <<>> THEN <<>>
    ELSE [k \in 1..(Len(recs) - 1) |->
            IF Len(recs[k + 1]) >= col THEN recs[k + 1][col] ELSE <<>>]

\* Whether a value cannot be cast to Int64 (an empty value is NA, not an error).
BadInt(v) == v # <<>> /\ ParseInt(v) = {}

PandasResult(err, col, vals) ==
    [raised |-> err \/ col = 0 \/ \E k \in 1..Len(vals) : BadInt(vals[k]),
     ids |-> UNION {ParseInt(vals[k]) : k \in 1..Len(vals)}]

PandasFrame(err, recs) ==
    PandasResult(err, IF recs = <<>> THEN 0 ELSE FirstIdCol(recs[1]),
                 IdValues(recs, IF recs = <<>> THEN 0 ELSE FirstIdCol(recs[1])))

PandasOf(p) == PandasFrame(p.err, NonBlank(p.rows))

\* pd.read_csv(path, engine="python", on_bad_lines="skip", usecols=["id"],
\* dtype={"id": "Int64"}): raises on an empty file, on a header without an
\* id column and on an id that is no integer; blank lines are skipped, a
\* missing or empty id is NA.
PandasRead(text) == PandasOf(Parse(text))

DictRows(names, rows) ==
    UNION {ParseInt(IF LastIdCol(names) = 0 \/ Len(rows[k]) < LastIdCol(names)
                    THEN <<>> ELSE rows[k][LastIdCol(names)]) : k \in 1..Len(rows)}

\* A row whose id is no number ends the read: None.
FallbackOfStrict(p) ==
    IF p.err \/ p.rows = <<>> THEN {}
    ELSE IF \E k \in 2..Len(p.rows) :
               p.rows[k] # <<>> /\ (Len(p.rows[k]) < LastIdCol(p.rows[1])
                                    \/ ParseInt(p.rows[k][LastIdCol(p.rows[1])]) = {})
         THEN {}
         ELSE DictRows(p.rows[1], NonBlank(Tail(p.rows)))

FallbackOf(p) ==
    IF p.err \/ p.rows = <<>> THEN {}
    ELSE DictRows(p.rows[1], NonBlank(Tail(p.rows)))

\* The except branch: csv.DictReader over the file, int(row.get("id", "").strip())
\* per row, rows that raise skipped; None if the reader itself raises.
FallbackRead(text) == FallbackOf(Parse(text))

MaxOrNone(S) == IF S = {} THEN {} ELSE {Max(S)}

IdsRead(p, text) == IF p.raised THEN FallbackRead(text) ELSE p.ids

\* No fallback: None as soon as pandas raises.
SafeMaxIdFromCsvNoFallback(text) ==
    IF PandasRead(text).raised THEN {} ELSE MaxOrNone(PandasRead(text).ids)

\* _safe_max_id_from_csv: the max id as a one-element set, {} for None.
SafeMaxIdFromCsv(text) == MaxOrNone(IdsRead(PandasRead(text), text))

WavStems(dir) == {f.stem : f \in {g \in dir.files : g.ext = "wav"}}

\* _safe_max_id_from_files: max int(p.stem) over folder.glob("*.wav").
SafeMaxIdFromFiles(dir) ==
    IF ~dir.exists THEN {}
    ELSE MaxOrNone(UNION {ParseInt(st) : st \in WavStems(dir)})

\* "CSV first, then the filenames": the files are looked at only when the
\* ledger gives no id.
NextIdCsvFirst(ledger, dir) ==
    IF ~ledger.exists \/ SafeMaxIdFromCsv(ledger.text) = {}
    THEN IF SafeMaxIdFromFiles(dir) # {} THEN Max(SafeMaxIdFromFiles(dir)) + 1 ELSE 1
    ELSE Max(SafeMaxIdFromCsv(ledger.text)) + 1

PlusOneOr1(candidates) == IF candidates # {} THEN Max(candidates) + 1 ELSE 1

\* next_id
NextId(ledger, dir) ==
    IF ~ledger.exists
    THEN PlusOneOr1(SafeMaxIdFromFiles(dir))
    ELSE PlusOneOr1(SafeMaxIdFromCsv(ledger.text) \cup SafeMaxIdFromFiles(dir))

\* The header is written by every call.
AppendCsvAlwaysHeader(ledger, fields) ==
    [exists |-> TRUE, text |-> ledger.text \o WriteRow(header) \o WriteRow(fields)]

\* append_csv: open in append mode, the header first if the file is new.
AppendCsv(ledger, fields) ==
    LET write_header == ~ledger.exists
    IN  [exists |-> TRUE,
         text |-> ledger.text
                  \o (IF write_header THEN WriteRow(header) ELSE <<>>)
                  \o WriteRow(fields)]

\* ------------------------------------------------------------ state
VARIABLES
    csv,        \* data.csv: [exists, text]
    lines,      \* Lines/: [exists, files], a file [stem, ext, src]
    cookies,    \* clipcafe_cookies.pkl: "absent", "ok" or "bad" (unreadable)
    run,        \* runs of the script started so far
    urls,       \* the batch of this run
    pc,         \* where run_batch (and handle_clip inside it) stands
    i,          \* position in urls of the target being handled
    browser,    \* "none", "open", "quit"
    tmp,        \* drv.tmp_download_dir: [exists, files], a file [job, part]
    dl,         \* the browser's download of each target
    before,     \* handle_clip's snapshot of tmp
    elapsed,    \* seconds since wait_download was called
    wav,        \* what wait_download returned
    idx,        \* what next_id returned
    secsLeft,   \* s of the login countdown
    exc,        \* an exception is propagating out of run_batch's try
    out,        \* per target: "todo", "done" or "failed"
    log,        \* the "error: u (e)" lines printed, in order
    ids,        \* every id next_id returned, in order, over all runs
    doneIds,    \* the ids of the clips that reached the end of handle_clip, in order
    ev,         \* what handle_clip did for the current target, in order
    csv0,       \* the ledger when this run started
    atStart,    \* ledger, directory and ids when the current target started
    marks,      \* offsets in csv.text after the header and after each row
    calls,      \* restore_cookies' result, login waits and save_cookies calls
    rec,        \* a record drawn for the ledger functions
    back,       \* what was read back from the ledger
    ret,        \* what next_id returned when called on its own
    argv,       \* sys.argv[1:], a command line having started the script
    exit,       \* the exit status of the script, once it has ended
    meta,       \* what extract_meta returned when called on its own
    qpc,        \* where identify_speakers (qwen_test_Ata.py) stands
    results,    \* its results dict, in insertion order: [k, v] pairs
    outFile,    \* its JSON results file: [exists, text]
    wavAt,      \* idx, the position in wav_paths
    durable,    \* the results of the last write that completed
    redone,     \* a clip was analysed that had a result in a completed write
    kills       \* how many times the process was killed

vars == <<csv, lines, cookies, run, urls, pc, i, browser, tmp, dl, before,
          elapsed, wav, idx, secsLeft, exc, out, log, ids, doneIds, ev, csv0,
          atStart, marks, calls, rec, back, ret, argv, exit,
          meta, qpc, results, outFile, wavAt, durable, redone, kills>>

world == <<csv, lines, marks>>
local == <<before, elapsed, wav, idx>>
pure == <<rec, back, ret, meta>>
cli == <<argv, exit>>
qwen == <<qpc, results, outFile, wavAt, durable, redone, kills>>
hist == <<ids, doneIds, ev, csv0, atStart>>

NoFile == [job |-> 0, part |-> FALSE]
NoCalls == [restored |-> "unset", waits |-> 0, saves |-> 0, waitAt |-> 0]

\* What extract_meta finds on the page of target u.
ActorOf(u) == <<"Actor">>
MovieOf(u) == <<"Movie">> \o StrInt(u)
LineOf(u) ==
    CASE u = 1 -> <<"a", COMMA, "b">>
      [] u = 2 -> <<BACKSLASH, QUOTE>>
      [] u = 3 -> <<"x", LF, "y">>
      [] OTHER -> <<"z">>
DurOf(u) == <<"2.5">>

\* ------------------------------------------------------------ run_batch
\* start_browser: mkdtemp, then Chrome with it as download directory.
StartBrowser ==
    /\ pc = "start"
    /\ tmp' = [exists |-> TRUE, files |-> {}]
    /\ \/ browser' = "open" /\ pc' = "restore"
       \/ browser' = "none" /\ pc' = "crashed"      \* webdriver.Chrome raises
    /\ UNCHANGED <<world, cookies, run, urls, i, dl, local, secsLeft, exc, out,
                   log, hist, calls, pure, cli, qwen>>

\* restore_cookies: False without the file; else load it into the browser.
RestoreCookies ==
    /\ pc = "restore"
    /\ \/ /\ cookies = "absent"
          /\ calls' = [calls EXCEPT !.restored = "False"]
          /\ pc' = "login" /\ exc' = exc
       \/ /\ cookies = "ok"
          /\ calls' = [calls EXCEPT !.restored = "True"]
          /\ pc' = "loop" /\ exc' = exc
       \/ /\ cookies # "absent"                     \* drv.get, pickle.load or add_cookie raises
          /\ calls' = [calls EXCEPT !.restored = "raised"]
          /\ pc' = "finally" /\ exc' = TRUE
    /\ UNCHANGED <<world, cookies, run, urls, i, browser, tmp, dl, local,
                   secsLeft, out, log, hist, pure, cli, qwen>>

\* First run: open the site and start the countdown.
LoginStart ==
    /\ pc = "login"
    /\ \/ /\ pc' = "login_wait" /\ secsLeft' = LOGIN_WAIT_SECS
          /\ calls' = [calls EXCEPT !.waits = @ + 1, !.waitAt = i]
          /\ exc' = exc
       \/ /\ pc' = "finally" /\ exc' = TRUE          \* drv.get raises
          /\ UNCHANGED <<secsLeft, calls>>
    /\ UNCHANGED <<world, cookies, run, urls, i, browser, tmp, dl, local, out,
                   log, hist, pure, cli, qwen>>

\* for s in range(LOGIN_WAIT_SECS, 0, -1): time.sleep(1)
LoginTick ==
    /\ pc = "login_wait"
    /\ IF secsLeft > 0
       THEN secsLeft' = secsLeft - 1 /\ pc' = pc
       ELSE secsLeft' = secsLeft /\ pc' = "save"
    /\ UNCHANGED <<world, cookies, run, urls, i, browser, tmp, dl, local, exc,
                   out, log, hist, calls, pure, cli, qwen>>

\* save_cookies: the file is opened for writing, then the cookies dumped.
SaveCookies ==
    /\ pc = "save"
    /\ calls' = [calls EXCEPT !.saves = @ + 1]
    /\ \/ cookies' = "ok" /\ pc' = "loop" /\ exc' = exc
       \/ cookies' = "bad" /\ pc' = "finally" /\ exc' = TRUE   \* get_cookies raises
    /\ UNCHANGED <<world, run, urls, i, browser, tmp, dl, local, secsLeft, out,
                   log, hist, pure, cli, qwen>>

\* for u in urls: the next target, or the end of the loop.
NextTarget ==
    /\ pc = "loop"
    /\ IF i < Len(urls)
       THEN /\ i' = i + 1 /\ pc' = "navigate"
            /\ ev' = <<>>
            /\ atStart' = [csv |-> csv, lines |-> lines, nids |-> Len(ids)]
       ELSE /\ i' = i /\ pc' = "finally"
            /\ UNCHANGED <<ev, atStart>>
    /\ UNCHANGED <<world, cookies, run, urls, browser, tmp, dl, local, secsLeft,
                   exc, out, log, ids, doneIds, csv0, calls, pure, cli, qwen>>

\* The error ends the loop: the targets after it are never tried.
FailAborts(reason) ==
    /\ log' = Append(log, [url |-> urls[i], reason |-> reason])
    /\ out' = [out EXCEPT ![i] = "failed"]
    /\ pc' = "finally"

\* The target that failed is tried again.
FailRetries(reason) ==
    /\ log' = Append(log, [url |-> urls[i], reason |-> reason])
    /\ out' = [out EXCEPT ![i] = "failed"]
    /\ pc' = "navigate"

\* The error sends the run back to the login step.
FailRelogin(reason) ==
    /\ log' = Append(log, [url |-> urls[i], reason |-> reason])
    /\ out' = [out EXCEPT ![i] = "failed"]
    /\ pc' = "login"

\* except Exception as e: print(f"error: {u} ({e})"); the loop goes on.
Fail(reason) ==
    /\ log' = Append(log, [url |-> urls[i], reason |-> reason])
    /\ out' = [out EXCEPT ![i] = "failed"]
    /\ pc' = "loop"

Ok(next) == pc' = next /\ UNCHANGED <<out, log>>

\* ------------------------------------------------------------ handle_clip
\* drv.get(url)
Navigate ==
    /\ pc = "navigate"
    /\ Ok("ready") \/ Fail("navigate")
    /\ UNCHANGED <<world, cookies, run, urls, i, browser, tmp, dl, local,
                   secsLeft, exc, hist, calls, pure, cli, qwen>>

\* WebDriverWait(drv, WAIT_SECS).until(presence of div.highlight-box)
WaitReady ==
    /\ pc = "ready"
    /\ Ok("extract") \/ Fail("ready")
    /\ UNCHANGED <<world, cookies, run, urls, i, browser, tmp, dl, local,
                   secsLeft, exc, hist, calls, pure, cli, qwen>>

\* extract_meta(drv.page_source)
Extract ==
    /\ pc = "extract"
    /\ Ok("snapshot") \/ Fail("extract")
    /\ UNCHANGED <<world, cookies, run, urls, i, browser, tmp, dl, local,
                   secsLeft, exc, hist, calls, pure, cli, qwen>>

\* folder.glob("*"): partial downloads too.
GlobWavAll(dir) == dir.files

\* folder.glob("*.wav"): a partial download is name.wav.crdownload
GlobWav(dir) == {f \in dir.files : ~f.part}

\* The snapshot is taken after the click, the download having completed.
SnapshotAhead ==
    /\ pc = "snapshot"
    /\ before' = GlobWav(tmp) \cup {[job |-> i, part |-> FALSE]}
    /\ Ok("trigger")
    /\ UNCHANGED <<world, cookies, run, urls, i, browser, tmp, dl, elapsed, wav,
                   idx, secsLeft, exc, hist, calls, pure, cli, qwen>>

\* before = set(drv.tmp_download_dir.glob("*.wav"))
Snapshot ==
    /\ pc = "snapshot"
    /\ before' = GlobWav(tmp)
    /\ pc' = "trigger"
    /\ UNCHANGED <<world, cookies, run, urls, i, browser, tmp, dl, elapsed, wav,
                   idx, secsLeft, exc, out, log, hist, calls, pure, cli, qwen>>

\* The clicks: Download Clip, input#audio-wav, submit. The submit starts the
\* download; a wait or a click before it may raise.
Trigger ==
    /\ pc = "trigger"
    /\ \/ /\ dl' = [dl EXCEPT ![i] = "pending"]
          /\ elapsed' = 0                            \* wait_download: deadline set
          /\ Ok("await")
       \/ /\ UNCHANGED <<dl, elapsed>>
          /\ Fail("trigger")
    /\ UNCHANGED <<world, cookies, run, urls, i, browser, tmp, before, wav, idx,
                   secsLeft, exc, hist, calls, pure, cli, qwen>>

\* wait_download, one turn of the loop: files not in the snapshot end it,
\* else time.sleep(1).
WaitDownloadPoll ==
    /\ pc = "await"
    /\ elapsed < WAIT_SECS
    /\ LET new == GlobWav(tmp) \ before
       IN  IF new # {}
           THEN /\ \E f \in new : wav' = f           \* new[0], in glob's order
                /\ pc' = "alloc"
                /\ elapsed' = elapsed
           ELSE /\ \E d \in 1..MaxSleep : elapsed' = elapsed + d
                /\ UNCHANGED <<wav, pc>>
    /\ UNCHANGED <<world, cookies, run, urls, i, browser, tmp, dl, before, idx,
                   secsLeft, exc, out, log, hist, calls, pure, cli, qwen>>

\* An id is taken before the timeout is raised.
WaitDownloadTimeoutAllocates ==
    /\ pc = "await"
    /\ ~(elapsed < WAIT_SECS)
    /\ idx' = NextId(csv, lines)
    /\ ids' = Append(ids, idx')
    /\ Fail("timeout")
    /\ UNCHANGED <<world, cookies, run, urls, i, browser, tmp, dl, before,
                   elapsed, wav, secsLeft, exc, doneIds, ev, csv0, atStart,
                   calls, pure, cli, qwen>>

\* The timeout is raised whatever the clock says.
WaitDownloadTimeoutEarly ==
    /\ pc = "await"
    /\ Fail("timeout")
    /\ UNCHANGED <<world, cookies, run, urls, i, browser, tmp, dl, local,
                   secsLeft, exc, hist, calls, pure, cli, qwen>>

\* wait_download, the deadline passed: raise RuntimeError("Download timed out")
WaitDownloadTimeout ==
    /\ pc = "await"
    /\ ~(elapsed < WAIT_SECS)
    /\ Fail("timeout")
    /\ UNCHANGED <<world, cookies, run, urls, i, browser, tmp, dl, local,
                   secsLeft, exc, hist, calls, pure, cli, qwen>>

\* idx = next_id()
Allocate ==
    /\ pc = "alloc"
    /\ idx' = NextId(csv, lines)
    /\ ids' = Append(ids, idx')
    /\ ev' = Append(ev, "alloc")
    /\ pc' = "mkdir"
    /\ UNCHANGED <<world, cookies, run, urls, i, browser, tmp, dl, before,
                   elapsed, wav, secsLeft, exc, out, log, doneIds, csv0, atStart,
                   calls, pure, cli, qwen>>

\* The row is appended with the file still in the temp directory.
MkdirThenAppend ==
    /\ pc = "mkdir"
    /\ lines' = [lines EXCEPT !.exists = TRUE]
    /\ pc' = "append"
    /\ UNCHANGED <<csv, marks, cookies, run, urls, i, browser, tmp, dl, local,
                   secsLeft, exc, out, log, hist, calls, pure, cli, qwen>>

\* DL_DIR.mkdir(exist_ok=True)
Mkdir ==
    /\ pc = "mkdir"
    /\ lines' = [lines EXCEPT !.exists = TRUE]
    /\ pc' = "move"
    /\ UNCHANGED <<csv, marks, cookies, run, urls, i, browser, tmp, dl, local,
                   secsLeft, exc, out, log, hist, calls, pure, cli, qwen>>

\* shutil.move(str(wav), DL_DIR / f"{idx:02d}.wav"): a file of that name is replaced.
MoveInto(dir, f, n) ==
    [dir EXCEPT !.files =
        {g \in @ : ~(g.stem = Fmt02d(n) /\ g.ext = "wav")}
        \cup {[stem |-> Fmt02d(n), ext |-> "wav", src |-> [run |-> run, job |-> f.job]]}]

Move ==
    /\ pc = "move"
    /\ \/ /\ wav \in tmp.files
          /\ lines' = MoveInto(lines, wav, idx)
          /\ tmp' = [tmp EXCEPT !.files = @ \ {wav}]
          /\ ev' = Append(ev, "relocate")
          /\ Ok("append")
       \/ /\ UNCHANGED <<lines, tmp, ev>>
          /\ Fail("move")
    /\ UNCHANGED <<csv, marks, cookies, run, urls, i, browser, dl, local,
                   secsLeft, exc, ids, doneIds, csv0, atStart, calls, pure, cli, qwen>>

\* append_csv({...}); print("ok")
Append_csv ==
    /\ pc = "append"
    /\ \/ /\ csv' = AppendCsv(csv, RowFields(idx, ActorOf(urls[i]), MovieOf(urls[i]),
                                          LineOf(urls[i]), DurOf(urls[i])))
          /\ marks' = IF csv.exists THEN Append(marks, Len(csv'.text))
                      ELSE <<Len(WriteRow(header)), Len(csv'.text)>>
          /\ ev' = Append(ev, "append")
          /\ doneIds' = Append(doneIds, idx)
          /\ out' = [out EXCEPT ![i] = "done"]
          /\ pc' = "loop" /\ log' = log
       \/ /\ UNCHANGED <<csv, marks, ev, doneIds>>     \* open() raises
          /\ Fail("append")
    /\ UNCHANGED <<lines, cookies, run, urls, i, browser, tmp, dl, local,
                   secsLeft, exc, ids, csv0, atStart, calls, pure, cli, qwen>>

\* ------------------------------------------------------------ the browser
\* Chrome starts writing a triggered download: name.wav.crdownload appears.
BrowserStartsFile ==
    /\ browser = "open" /\ tmp.exists
    /\ \E t \in DOMAIN dl :
         /\ dl[t] = "pending"
         /\ dl' = [dl EXCEPT ![t] = "partial"]
         /\ tmp' = [tmp EXCEPT !.files = @ \cup {[job |-> t, part |-> TRUE]}]
    /\ UNCHANGED <<world, cookies, run, urls, pc, i, browser, local, secsLeft,
                   exc, out, log, hist, calls, pure, cli, qwen>>

\* Chrome completes a download: the file is renamed to name.wav.
BrowserCompletesFile ==
    /\ browser = "open" /\ tmp.exists
    /\ \E t \in DOMAIN dl :
         /\ dl[t] = "partial"
         /\ dl' = [dl EXCEPT ![t] = "complete"]
         /\ tmp' = [tmp EXCEPT !.files =
                      (@ \ {[job |-> t, part |-> TRUE]}) \cup {[job |-> t, part |-> FALSE]}]
    /\ UNCHANGED <<world, cookies, run, urls, pc, i, browser, local, secsLeft,
                   exc, out, log, hist, calls, pure, cli, qwen>>

\* ------------------------------------------------------------ finally
\* drv.quit()
Quit ==
    /\ pc = "finally"
    /\ \/ browser' = "quit" /\ pc' = "rmtree"
       \/ browser' \in {"open", "quit"} /\ pc' = "crashed"   \* drv.quit() raises
    /\ UNCHANGED <<world, cookies, run, urls, i, tmp, dl, local, secsLeft, exc,
                   out, log, hist, calls, pure, cli, qwen>>

\* shutil.rmtree(drv.tmp_download_dir, ignore_errors=True)
Rmtree ==
    /\ pc = "rmtree"
    /\ tmp' = [exists |-> FALSE, files |-> {}]
    /\ pc' = IF exc THEN "crashed" ELSE "done"
    /\ UNCHANGED <<world, cookies, run, urls, i, browser, dl, local, secsLeft,
                   exc, out, log, hist, calls, pure, cli, qwen>>

\* ------------------------------------------------------------ initial states
RECURSIVE PriorCsv(_)
\* The ledger after k clips acquired by earlier runs.
PriorCsv(k) ==
    IF k = 0 THEN [exists |-> FALSE, text |-> <<>>]
    ELSE AppendCsv(PriorCsv(k - 1), RowFields(k, ActorOf(0), <<"Old">>, LineOf(k), DurOf(0)))

PriorLines(k) ==
    [exists |-> k > 0,
     files |-> {[stem |-> Fmt02d(j), ext |-> "wav", src |-> [run |-> 0, job |-> j]] : j \in 1..k}]

PriorMarks(k) ==
    IF k = 0 THEN <<>> ELSE [j \in 1..(k + 1) |-> IF j = 1 THEN Len(WriteRow(header))
                                                 ELSE Len(PriorCsv(j - 1).text)]

Batch(n) == [k \in 1..n |-> k]

\* A run about to start on the batch us.
RunStart(us) ==
    /\ urls = us
    /\ pc = "start"
    /\ i = 0
    /\ browser = "none"
    /\ tmp = [exists |-> FALSE, files |-> {}]
    /\ dl = [t \in 1..Len(us) |-> "none"]
    /\ before = {}
    /\ elapsed = 0
    /\ wav = NoFile
    /\ idx = 0
    /\ secsLeft = 0
    /\ exc = FALSE
    /\ out = [t \in 1..Len(us) |-> "todo"]
    /\ log = <<>>
    /\ ev = <<>>
    /\ calls = NoCalls

\* identify_speakers is not running and has written nothing.
QwenIdle ==
    /\ qpc = "off"
    /\ results = <<>>
    /\ outFile = [exists |-> FALSE, text |-> <<>>]
    /\ wavAt = 0
    /\ durable = <<>>
    /\ redone = FALSE
    /\ kills = 0

PureIdle == rec = <<>> /\ back = <<>> /\ ret = {} /\ meta = {} /\ QwenIdle

\* run_batch called as a function: no command line, no exit status.
NoCli == argv = <<>> /\ exit = {}

Init ==
    /\ \E k \in 0..MaxPrior :
         /\ csv = PriorCsv(k)
         /\ lines = PriorLines(k)
         /\ marks = PriorMarks(k)
         /\ csv0 = PriorCsv(k)
         /\ atStart = [csv |-> PriorCsv(k), lines |-> PriorLines(k), nids |-> 0]
    /\ cookies \in {"absent", "ok"}
    /\ run = 1
    /\ \E n \in 0..MaxTargets : RunStart(Batch(n))
    /\ ids = <<>>
    /\ doneIds = <<>>
    /\ PureIdle
    /\ NoCli

Next ==
    \/ StartBrowser
    \/ RestoreCookies
    \/ LoginStart
    \/ LoginTick
    \/ SaveCookies
    \/ NextTarget
    \/ Navigate
    \/ WaitReady
    \/ Extract
    \/ Snapshot
    \/ Trigger
    \/ WaitDownloadPoll
    \/ WaitDownloadTimeout
    \/ Allocate
    \/ Mkdir
    \/ Move
    \/ Append_csv
    \/ BrowserStartsFile
    \/ BrowserCompletesFile
    \/ Quit
    \/ Rmtree

Spec == Init /\ [][Next]_vars

\* ------------------------------------------------------------ the command line
MaxLines == 3

\* An argument: a URL, or the name of a file of links. A line of the file
\* is a URL (url > 0) or nothing, between white space and a newline.
UrlArg(u) == [isfile |-> FALSE, url |-> u, lines |-> <<>>]
FileArg(u, lns) == [isfile |-> TRUE, url |-> u, lines |-> lns]

\* ln.strip(): the line without the white space around it, "" (0) if none is left.
Strip(ln) == ln.url

\* The file whose j-th line holds a URL where p[j], numbered from 1.
LinksFile(p) ==
    [j \in 1..Len(p) |->
        [lead |-> j % 2,
         url |-> IF p[j] THEN Cardinality({k \in 1..j : p[k]}) ELSE 0,
         nl |-> TRUE]]

NonEmpty(ln) == Strip(ln) # 0

StripAll(lns) == [k \in 1..Len(lns) |-> Strip(lns[k])]

\* collect_urls(args)
CollectUrls(args) ==
    IF Len(args) = 1 /\ args[1].isfile
    THEN StripAll(SelectSeq(args[1].lines, NonEmpty))
    ELSE [k \in 1..Len(args) |-> args[k].url]

Argvs ==
    {<<>>, <<FileArg(1, <<>>), UrlArg(2)>>}
    \cup {[k \in 1..n |-> UrlArg(k)] : n \in 1..MaxTargets}
    \cup {<<FileArg(1, LinksFile(p))>> : p \in UNION {[1..m -> BOOLEAN] : m \in 0..MaxLines}}

InitMain ==
    /\ csv = PriorCsv(0)
    /\ lines = PriorLines(0)
    /\ marks = PriorMarks(0)
    /\ csv0 = PriorCsv(0)
    /\ atStart = [csv |-> PriorCsv(0), lines |-> PriorLines(0), nids |-> 0]
    /\ cookies \in {"absent", "ok"}
    /\ run = 1
    /\ argv \in Argvs
    /\ exit = {}
    /\ urls = <<>> /\ dl = <<>> /\ out = <<>>
    /\ pc = "main"
    /\ i = 0
    /\ browser = "none"
    /\ tmp = [exists |-> FALSE, files |-> {}]
    /\ before = {}
    /\ elapsed = 0
    /\ wav = NoFile
    /\ idx = 0
    /\ secsLeft = 0
    /\ exc = FALSE
    /\ log = <<>>
    /\ ev = <<>>
    /\ calls = NoCalls
    /\ ids = <<>>
    /\ doneIds = <<>>
    /\ PureIdle

\* if len(sys.argv) < 2: usage, sys.exit(1); else run_batch(collect_urls(sys.argv[1:]))
Main ==
    /\ pc = "main"
    /\ IF Len(argv) < 1
       THEN /\ exit' = {1} /\ pc' = "exited"
            /\ UNCHANGED <<urls, dl, out>>
       ELSE /\ urls' = CollectUrls(argv)
            /\ dl' = [t \in 1..Len(CollectUrls(argv)) |-> "none"]
            /\ out' = [t \in 1..Len(CollectUrls(argv)) |-> "todo"]
            /\ pc' = "start" /\ exit' = exit
    /\ UNCHANGED <<world, cookies, run, i, browser, tmp, local, secsLeft, exc,
                   log, hist, calls, pure, argv, qwen>>

\* The script ends: status 0 when run_batch returned, 1 (a traceback) when
\* an exception left it.
Exit ==
    /\ pc \in {"done", "crashed"}
    /\ argv # <<>>
    /\ exit' = {IF pc = "done" THEN 0 ELSE 1}
    /\ pc' = "exited"
    /\ UNCHANGED <<world, cookies, run, urls, i, browser, tmp, dl, local,
                   secsLeft, exc, out, log, hist, calls, pure, argv, qwen>>

NextMain ==
    \/ Next
    \/ Main
    \/ Exit

SpecMain == InitMain /\ [][NextMain]_vars

\* ------------------------------------------------------------ several runs
\* The script is started again, on what the earlier runs left on disk.
NewRun ==
    /\ pc \in {"done", "crashed"}
    /\ run < MaxRuns
    /\ run' = run + 1
    /\ \E n \in 0..RunTargets :
         /\ urls' = Batch(n)
         /\ dl' = [t \in 1..n |-> "none"]
         /\ out' = [t \in 1..n |-> "todo"]
    /\ pc' = "start"
    /\ i' = 0
    /\ browser' = "none"
    /\ tmp' = [exists |-> FALSE, files |-> {}]
    /\ before' = {}
    /\ elapsed' = 0
    /\ wav' = NoFile
    /\ idx' = 0
    /\ secsLeft' = 0
    /\ exc' = FALSE
    /\ log' = <<>>
    /\ ev' = <<>>
    /\ calls' = NoCalls
    /\ csv0' = csv
    /\ atStart' = [csv |-> csv, lines |-> lines, nids |-> Len(ids)]
    /\ UNCHANGED <<world, cookies, ids, doneIds, pure, cli, qwen>>

InitRuns ==
    /\ csv = PriorCsv(0)
    /\ lines = PriorLines(0)
    /\ marks = PriorMarks(0)
    /\ csv0 = PriorCsv(0)
    /\ atStart = [csv |-> PriorCsv(0), lines |-> PriorLines(0), nids |-> 0]
    /\ cookies \in {"absent", "ok"}
    /\ run = 1
    /\ \E n \in 0..RunTargets : RunStart(Batch(n))
    /\ ids = <<>>
    /\ doneIds = <<>>
    /\ PureIdle
    /\ NoCli

IdsOfRecords(recs) == UNION {ParseInt(recs[k][1]) : k \in 2..Len(recs)}

\* The ids of the ledger's data rows, as a reader of the file sees them.
RowIds(ledger) ==
    IF ~ledger.exists THEN {} ELSE IdsOfRecords(NonBlank(ReadRecords(ledger.text)))

\* The ids of the clip files of the directory.
FileIds(dir) == UNION {ParseInt(st) : st \in WavStems(dir)}

LastOf(recs) == recs[Len(recs)]

\* The id of the last row of the ledger.
LastRowId == ParseInt(LastOf(ReadRecords(csv.text))[1])

\* Where the ledger and the directory are changed from outside: before a
\* run starts and right before an allocation.
Between == pc \in {"start", "alloc"}

\* Someone removes the last row of the ledger; its clip file stays.
DeleteLastRow ==
    /\ Between
    /\ Len(marks) >= 2
    /\ LastRowId \subseteq FileIds(lines)
    /\ csv' = [csv EXCEPT !.text = SubSeq(@, 1, marks[Len(marks) - 1])]
    /\ marks' = SubSeq(marks, 1, Len(marks) - 1)
    /\ UNCHANGED <<lines, cookies, run, urls, pc, i, browser, tmp, dl, local,
                   secsLeft, exc, out, log, hist, calls, pure, cli, qwen>>

\* Someone removes the newest clip file; its row stays.
DeleteLastFile ==
    /\ Between
    /\ FileIds(lines) # {}
    /\ Max(FileIds(lines)) \in RowIds(csv)
    /\ lines' = [lines EXCEPT !.files =
                    {f \in @ : ParseInt(f.stem) # {Max(FileIds(lines))}}]
    /\ UNCHANGED <<csv, marks, cookies, run, urls, pc, i, browser, tmp, dl, local,
                   secsLeft, exc, out, log, hist, calls, pure, cli, qwen>>

NextRuns ==
    \/ Next
    \/ NewRun
    \/ DeleteLastRow
    \/ DeleteLastFile

SpecRuns == InitRuns /\ [][NextRuns]_vars

\* Someone removes the newest clip altogether: its row and its file.
DeleteLastClip ==
    /\ Between
    /\ Len(marks) >= 2
    /\ csv' = [csv EXCEPT !.text = SubSeq(@, 1, marks[Len(marks) - 1])]
    /\ marks' = SubSeq(marks, 1, Len(marks) - 1)
    /\ lines' = [lines EXCEPT !.files = {f \in @ : ParseInt(f.stem) # LastRowId}]
    /\ UNCHANGED <<cookies, run, urls, pc, i, browser, tmp, dl, local,
                   secsLeft, exc, out, log, hist, calls, pure, cli, qwen>>

NextDel ==
    \/ Next
    \/ NewRun
    \/ DeleteLastClip

SpecDel == InitRuns /\ [][NextDel]_vars

\* ------------------------------------------------------------ what a reader sees
\* The data rows of the ledger (the header left out).
DataRowsOf(recs) == IF recs = <<>> THEN <<>> ELSE Tail(recs)

DataRows(ledger) ==
    IF ~ledger.exists THEN <<>> ELSE DataRowsOf(NonBlank(ReadRecords(ledger.text)))

IsPrefix(a, b) == Len(a) <= Len(b) /\ SubSeq(b, 1, Len(a)) = a

\* The positions of the batch with the given outcome, in order.
Positions(what) == SelectSeq([t \in 1..Len(urls) |-> t], LAMBDA t : out[t] = what)

\* The targets of the error lines printed, in order.
Logged == [k \in 1..Len(log) |-> log[k].url]

\* ------------------------------------------------------------ C1
\* Rows old (the ledger before the batch) followed by one row per target
\* in done, in that order, each carrying its target's movie title.
RowsAre(now, old, done) ==
    /\ Len(now) = Len(old) + Len(done)
    /\ IsPrefix(old, now)
    /\ \A j \in 1..Len(done) :
         /\ Len(now[Len(old) + j]) = Len(header)
         /\ now[Len(old) + j][3] = MovieOf(urls[done[j]])

\* C1: failure isolation. Whatever targets fail, at whatever step, the
\* ledger holds the rows it held before the batch, unchanged, followed by
\* exactly one row per target that did not fail, in the order of the batch;
\* a failed target has no row and one error line; when the batch ends no
\* target was left out.
C1_FailureIsolation ==
    /\ RowsAre(DataRows(csv), DataRows(csv0), Positions("done"))
    /\ IsPrefix(csv0.text, csv.text)
    /\ Logged = [k \in 1..Len(Positions("failed")) |-> urls[Positions("failed")[k]]]
    /\ pc = "done" => \A t \in 1..Len(urls) : out[t] # "todo"

\* Three targets, the second failing extraction, on a ledger with a row:
\* two new rows, the first target's and then the third's.
C1_Witness ==
    /\ pc = "done"
    /\ Len(urls) = 3
    /\ out = <<"done", "failed", "done">>
    /\ log = <<[url |-> 2, reason |-> "extract"]>>
    /\ Len(DataRows(csv0)) = 1
    /\ Len(DataRows(csv)) = 3
    /\ DataRows(csv)[2][3] = MovieOf(1)
    /\ DataRows(csv)[3][3] = MovieOf(3)

\* ------------------------------------------------------------ C2
Range(q) == {q[k] : k \in 1..Len(q)}

StrictlyIncreasing(q) == \A j, k \in 1..Len(q) : j < k => q[j] < q[k]

\* C2: monotonic, collision-free ids. The ids of the clips acquired, over
\* all runs, are strictly increasing (so pairwise distinct), and the id
\* next_id has just returned is the id of no row of the ledger and of no
\* file of the directory; also after the last row was removed and its file
\* kept, or the newest file removed and its row kept.
C2_MonotonicIds ==
    /\ StrictlyIncreasing(doneIds)
    /\ pc = "mkdir" => idx \notin RowIds(csv) \cup FileIds(lines)

\* The newest clip's row was removed, its file is still there, and the
\* next id allocated is the one after it.
C2_Witness ==
    /\ pc = "mkdir"
    /\ Len(doneIds) >= 2
    /\ doneIds[Len(doneIds)] \in FileIds(lines)
    /\ doneIds[Len(doneIds)] \notin RowIds(csv)
    /\ idx = doneIds[Len(doneIds)] + 1

\* ------------------------------------------------------------ C4
\* C4 as claimed: an id is never reused. The id next_id has just returned
\* is the id of no clip acquired before, whatever was removed since.
C4_NeverReused == pc = "mkdir" => idx \notin Range(doneIds)

\* ------------------------------------------------------------ next_id on its own
\* An orchestrator that is not running.
Off ==
    /\ urls = <<>>
    /\ pc = "off"
    /\ i = 0
    /\ run = 0
    /\ cookies = "absent"
    /\ browser = "none"
    /\ tmp = [exists |-> FALSE, files |-> {}]
    /\ dl = <<>>
    /\ before = {}
    /\ elapsed = 0
    /\ wav = NoFile
    /\ idx = 0
    /\ secsLeft = 0
    /\ exc = FALSE
    /\ out = <<>>
    /\ log = <<>>
    /\ ev = <<>>
    /\ calls = NoCalls
    /\ ids = <<>>
    /\ doneIds = <<>>
    /\ argv = <<>>
    /\ exit = {}

\* The id column of a row of a drawn ledger: a positive number is that id,
\* 0 a text that is no number, -1 no id at all.
DrawnIds == {-1, 0, 1, 2, 12}

IdText(a) == IF a > 0 THEN StrInt(a) ELSE IF a = 0 THEN <<"x">> ELSE <<>>

\* The names of a drawn directory: a positive number k is NN.wav, 0 is
\* clip.wav, -1 is 09.txt.
DrawnNames == {-1, 0, 1, 2, 7}

NameOf(k) ==
    IF k > 0 THEN [stem |-> Fmt02d(k), ext |-> "wav", src |-> [run |-> 0, job |-> k]]
    ELSE IF k = 0 THEN [stem |-> <<"clip">>, ext |-> "wav", src |-> [run |-> 0, job |-> 0]]
    ELSE [stem |-> Fmt02d(9), ext |-> "txt", src |-> [run |-> 0, job |-> 0]]

RECURSIVE LedgerOfRows(_)
\* A ledger the writer produced from rows with the given id columns.
LedgerOfRows(rowIds) ==
    IF rowIds = <<>> THEN [exists |-> TRUE, text |-> WriteRow(header)]
    ELSE [exists |-> TRUE,
          text |-> LedgerOfRows(SubSeq(rowIds, 1, Len(rowIds) - 1)).text
                   \o WriteRow(<<IdText(rowIds[Len(rowIds)]), ActorOf(0), <<"Old">>,
                                 LineOf(Len(rowIds)), DurOf(0)>>)]

DrawnLedger(l) ==
    CASE l.kind = "absent" -> [exists |-> FALSE, text |-> <<>>]
      [] l.kind = "empty" -> [exists |-> TRUE, text |-> <<>>]
      [] OTHER -> LedgerOfRows(l.rows)

DrawnDir(d) == [exists |-> d.exists, files |-> {NameOf(k) : k \in d.names}]

Ledgers ==
    {[kind |-> "absent", rows |-> <<>>], [kind |-> "empty", rows |-> <<>>]}
    \cup {[kind |-> "rows", rows |-> r] : r \in UNION {[1..n -> DrawnIds] : n \in 0..MaxRows}}

Dirs ==
    {[exists |-> FALSE, names |-> {}]}
    \cup {[exists |-> TRUE, names |-> N] : N \in SUBSET DrawnNames}

InitAlloc ==
    /\ Off
    /\ \E l \in Ledgers, d \in Dirs :
         /\ rec = [ledger |-> l, dir |-> d]
         /\ csv = DrawnLedger(l)
         /\ lines = DrawnDir(d)
         /\ csv0 = DrawnLedger(l)
         /\ atStart = [csv |-> DrawnLedger(l), lines |-> DrawnDir(d), nids |-> 0]
    /\ marks = <<>>
    /\ back = <<>>
    /\ ret = {}
    /\ meta = {}
    /\ QwenIdle

MaxCalls == 3

\* next_id() leaves a file of the id's name behind.
CallNextIdReserves ==
    /\ pc = "off"
    /\ Len(ids) < MaxCalls
    /\ ret' = {NextId(csv, lines)}
    /\ ids' = Append(ids, NextId(csv, lines))
    /\ lines' = [exists |-> TRUE,
                 files |-> lines.files \cup {NameOf(NextId(csv, lines))}]
    /\ UNCHANGED <<csv, marks, cookies, run, urls, pc, i, browser, tmp, dl, local,
                   secsLeft, exc, out, log, doneIds, ev, csv0, atStart, calls,
                   rec, back, meta, cli, qwen>>

\* next_id() is called, once more on the same ledger and directory.
CallNextId ==
    /\ pc = "off"
    /\ Len(ids) < MaxCalls
    /\ ret' = {NextId(csv, lines)}
    /\ ids' = Append(ids, NextId(csv, lines))
    /\ UNCHANGED <<world, cookies, run, urls, pc, i, browser, tmp, dl, local,
                   secsLeft, exc, out, log, doneIds, ev, csv0, atStart, calls,
                   rec, back, meta, cli, qwen>>

NextAlloc == CallNextId

SpecAlloc == InitAlloc /\ [][NextAlloc]_vars

\* ------------------------------------------------------------ C3
\* The ids a drawn ledger and a drawn directory hold.
DrawnLedgerIds(l) == {a \in Range(l.rows) : a > 0}
DrawnDirIds(d) == {k \in d.names : k > 0}

\* C3: whatever the ledger (absent too) and the directory (absent too),
\* next_id returns 1 + the largest id among the rows with a number as id
\* and the NN.wav files, and 1 when there is none.
C3_NextIdIsMaxPlusOne ==
    ret # {} =>
        ret = {IF DrawnLedgerIds(rec.ledger) \cup DrawnDirIds(rec.dir) = {} THEN 1
               ELSE 1 + Max(DrawnLedgerIds(rec.ledger) \cup DrawnDirIds(rec.dir))}

\* A ledger with rows 2 and a row without a number, a directory with
\* 01.wav, 07.wav, clip.wav and 09.txt: next_id returned 8.
C3_Witness ==
    /\ ret = {8}
    /\ rec.ledger.rows = <<2, 0>>
    /\ rec.dir.names = {-1, 0, 1, 7}

\* ------------------------------------------------------------ append_csv on its own
\* The characters of the texts drawn: a letter, the delimiter, the quote
\* character, the writer's escape character, a newline, and "U" for a
\* character outside ASCII (one more ordinary character to reader and writer).
Alphabet == {"a", COMMA, QUOTE, BACKSLASH, LF, "U"}

Texts == UNION {[1..n -> Alphabet] : n \in 0..MaxLen}

InitCsv ==
    /\ Off
    /\ \E k \in 0..MaxPrior :
         /\ csv = PriorCsv(k)
         /\ lines = PriorLines(k)
         /\ marks = PriorMarks(k)
         /\ csv0 = PriorCsv(k)
         /\ atStart = [csv |-> PriorCsv(k), lines |-> PriorLines(k), nids |-> 0]
    /\ \E t \in Texts, a \in {<<"Actor">>, <<"Unknown">>} :
         rec = [actor |-> a, movie |-> <<"Movie">>, line |-> t, dur |-> <<"0.0">>]
    /\ back = <<>>
    /\ ret = {}
    /\ meta = {}
    /\ QwenIdle

\* append_csv({"id": n, ...}) with the record drawn, n the next id.
CallAppendCsv ==
    /\ pc = "off"
    /\ Len(marks) < MaxPrior + MaxRows + 1
    /\ ret' = {NextId(csv, lines)}
    /\ csv' = AppendCsv(csv, RowFields(NextId(csv, lines), rec.actor, rec.movie,
                                      rec.line, rec.dur))
    /\ marks' = IF csv.exists THEN Append(marks, Len(csv'.text))
                ELSE <<Len(WriteRow(header)), Len(csv'.text)>>
    /\ back' = <<>>
    /\ UNCHANGED <<lines, cookies, run, urls, pc, i, browser, tmp, dl, local,
                   secsLeft, exc, out, log, hist, calls, rec, meta, cli, qwen>>

\* The ledger is read back, as csv.DictReader reads it.
CallRead ==
    /\ pc = "off"
    /\ csv.exists
    /\ back = <<>>
    /\ back' = NonBlank(ReadRecords(csv.text))
    /\ UNCHANGED <<world, cookies, run, urls, pc, i, browser, tmp, dl, local,
                   secsLeft, exc, out, log, hist, calls, rec, ret, meta, cli, qwen>>

NextCsv ==
    \/ CallAppendCsv
    \/ CallRead

SpecCsv == InitCsv /\ [][NextCsv]_vars

\* ------------------------------------------------------------ C7
RecordsOf(ledger) == IF ledger.exists THEN ReadRecords(ledger.text) ELSE <<>>

\* What one call of append_csv does to the ledger, as text and as read back.
OneRowAppended(old, new, oldRecs, newRecs) ==
    /\ new.exists
    /\ IsPrefix(old.text, new.text)
    /\ Len(newRecs) = Len(oldRecs) + (IF old.exists THEN 1 ELSE 2)
    /\ IsPrefix(oldRecs, newRecs)
    /\ ~old.exists => newRecs[1] = header
    /\ Len(LastOf(newRecs)) = Len(header)
    /\ LastOf(newRecs) # header

HeaderOnceFirst(recs) ==
    recs # <<>> /\ recs[1] = header /\ \A k \in 2..Len(recs) : recs[k] # header

\* C7: the ledger is append-only. Every call of append_csv leaves the text
\* that was there untouched and adds exactly one data row after it, with
\* the header before it if and only if the file did not exist; whatever
\* the appends, the header is there once, as the first row.
C7_AppendOnly ==
    /\ [][csv' # csv =>
            OneRowAppended(csv, csv', RecordsOf(csv), RecordsOf(csv'))]_vars
    /\ [](csv.exists => HeaderOnceFirst(RecordsOf(csv)))

\* Two appends on a ledger that did not exist, of a record with a newline
\* and a comma in its line: header, then two rows.
C7_Witness ==
    /\ csv.exists
    /\ ~csv0.exists
    /\ Len(marks) = 3
    /\ Len(RecordsOf(csv)) = 3
    /\ rec.line = <<LF, COMMA>>

\* ------------------------------------------------------------ C8
\* C8 as claimed: the ledger round trip. The last row read back holds the
\* field values of the record appended last, exactly.
C8_RoundTrip ==
    (back # <<>> /\ ret # {}) =>
        LastOf(back) = RowFields(Max(ret), rec.actor, rec.movie, rec.line, rec.dur)

\* ------------------------------------------------------------ C5
TimedOut == [url |-> urls[i], reason |-> "timeout"]

\* C5: when wait_download times out, no id is allocated for the target,
\* no file is moved into the download directory and the ledger is as it
\* was when the target started; the timeout is that target's failure, one
\* error line, and the loop goes on with the next target if there is one.
C5_TimeoutLeavesNoTrace ==
    /\ [][(pc = "await" /\ pc' \notin {"await", "alloc"}) =>
            /\ pc' = "loop" /\ i' = i
            /\ out' = [out EXCEPT ![i] = "failed"]
            /\ log' = Append(log, TimedOut)
            /\ Len(ids') = atStart.nids
            /\ lines' = atStart.lines
            /\ csv' = atStart.csv /\ marks' = marks]_vars
    /\ [][(pc = "loop" /\ pc' # "loop" /\ i < Len(urls)) =>
            (pc' = "navigate" /\ i' = i + 1)]_vars

\* The first target timed out and the second is being processed, on a
\* ledger with one row, nothing allocated.
C5_Witness ==
    /\ pc = "navigate" /\ i = 2
    /\ log = <<[url |-> 1, reason |-> "timeout"]>>
    /\ out[1] = "failed"
    /\ ids = <<>>
    /\ csv = csv0 /\ Len(DataRows(csv)) = 1

\* ------------------------------------------------------------ C6
\* C6 as claimed: a target that reaches the append has relocated the file,
\* then allocated the id, then appended the row.
C6_RelocateBeforeAllocate ==
    "append" \in Range(ev) => ev = <<"relocate", "alloc", "append">>

\* C6: in the processing of every target the id is allocated first (the
\* file's final name is made of it), then the file is relocated, then the
\* row is appended; a target that reached the append did all three, once.
C6_AllocateRelocateAppend ==
    /\ IsPrefix(ev, <<"alloc", "relocate", "append">>)
    /\ (pc = "append" \/ "append" \in Range(ev)) => IsPrefix(<<"alloc", "relocate">>, ev)
    /\ (pc = "loop" /\ i > 0 /\ out[i] = "done") => ev = <<"alloc", "relocate", "append">>

\* A target just appended: its file is in the download directory under the
\* id allocated before the move.
C6_Witness ==
    /\ pc = "loop" /\ i = 1
    /\ out[1] = "done"
    /\ ev = <<"alloc", "relocate", "append">>
    /\ idx \in FileIds(lines)

\* ------------------------------------------------------------ C9
\* The polling loop is sequential code of a running process: each of its
\* turns is taken.
SpecFair == Spec /\ WF_vars(WaitDownloadPoll) /\ WF_vars(WaitDownloadTimeout)

\* C9: wait_download returns only a matching file that is not in the
\* snapshot, so with no such file it never returns one; it fails only with
\* the bound elapsed, and with the bound elapsed it does nothing but fail;
\* the clock advances at every turn without a new file, and the loop ends.
C9_WatcherTimeout ==
    /\ [][(pc = "await" /\ pc' = "alloc") =>
            (wav' \in GlobWav(tmp) \ before /\ elapsed < WAIT_SECS)]_vars
    /\ [][(pc = "await" /\ pc' = "loop") =>
            (elapsed >= WAIT_SECS /\ log' = Append(log, TimedOut))]_vars
    /\ [][(pc = "await" /\ elapsed >= WAIT_SECS /\ pc' # pc) => pc' = "loop"]_vars
    /\ [][(pc = "await" /\ pc' = "await" /\ GlobWav(tmp) \ before = {}
            /\ elapsed < WAIT_SECS /\ tmp' = tmp) => elapsed' > elapsed]_vars
    /\ [](pc = "await" => elapsed < WAIT_SECS + MaxSleep)
    /\ (pc = "await") ~> (pc # "await")

\* The watcher timed out with the bound elapsed and no matching file in
\* the temp directory that the snapshot did not hold.
C9_Witness ==
    /\ pc = "loop" /\ i = 1
    /\ log = <<[url |-> 1, reason |-> "timeout"]>>
    /\ elapsed >= WAIT_SECS
    /\ GlobWav(tmp) \ before = {}

\* ------------------------------------------------------------ C10
LoginSteps == {"login", "login_wait", "save"}

\* C10: in a run the login wait happens at most once, only after
\* restore_cookies returned False, and before any target; save_cookies is
\* called once the wait is over and in no other case; no login step is
\* taken once the first target has started, whatever fails.
C10_SessionStateMachine ==
    /\ calls.waits <= 1
    /\ calls.saves <= calls.waits
    /\ calls.waits = 1 => (calls.restored = "False" /\ calls.waitAt = 0)
    /\ pc \notin {"login_wait", "save"} => calls.saves = calls.waits
    /\ pc \in LoginSteps => (i = 0 /\ \A t \in 1..Len(urls) : out[t] = "todo")
    /\ i > 0 => (calls.saves = 1 <=> calls.restored = "False")
    /\ i > 0 => (calls.restored \in {"True", "False"})

\* A first run, no cookie file: one wait, one save, then the first target
\* failed and the second is being processed.
C10_Witness ==
    /\ pc = "navigate" /\ i = 2
    /\ out[1] = "failed"
    /\ calls.restored = "False"
    /\ calls.waits = 1 /\ calls.saves = 1

\* ------------------------------------------------------------ C11
\* The targets the command line gives.
Given == IF argv = <<>> THEN <<>> ELSE CollectUrls(argv)

\* C11 as claimed: the script exits with 1 whenever no targets are given,
\* on the command line or in the file of links, and with 0 whenever a
\* target is given and all of them have been attempted, whatever failed.
C11_ExitCode ==
    exit # {} =>
        IF Given = <<>> THEN exit = {1}
        ELSE (\A t \in 1..Len(out) : out[t] # "todo") => exit = {0}

\* ------------------------------------------------------------ C12
\* C12: for a ledger whose rows mix ids that are numbers with ids that are
\* no number or are missing, _safe_max_id_from_csv returns the largest of
\* the numbers (None when there is none) and raises nothing, and next_id
\* returns one more than the largest of that and the directory's ids.
C12_MalformedRowTolerance ==
    (ret # {} /\ rec.ledger.kind = "rows") =>
        /\ SafeMaxIdFromCsv(csv.text) = MaxOrNone(DrawnLedgerIds(rec.ledger))
        /\ ret = {PlusOneOr1(MaxOrNone(DrawnLedgerIds(rec.ledger))
                             \cup DrawnDirIds(rec.dir))}

\* A row without an id, then a row with id 12, no directory: 13.
C12_Witness ==
    /\ ret = {13}
    /\ rec.ledger.rows = <<-1, 12>>
    /\ ~rec.dir.exists

MovedAs(n) == {f \in lines.files : f.src.run = run /\ ParseInt(f.stem) = {n}}

\* C14 as claimed: the file relocated and recorded for a target is the
\* file that target's own download produced, whatever the interleaving of
\* the browser's downloads with the orchestrator.
C14_OwnDownload ==
    (pc = "loop" /\ i > 0 /\ out[i] = "done") =>
        \A f \in MovedAs(idx) : f.src.job = i

\* ------------------------------------------------------------ C15
\* C15 as claimed: at every target boundary, the target done or failed,
\* every clip file of the download directory has a row with its id.
C15_EveryFileHasRow ==
    pc = "loop" => FileIds(lines) \subseteq RowIds(csv)

\* ------------------------------------------------------------ C16
OwnFile == [job |-> i, part |-> FALSE]

\* C16: the snapshot is taken before the download is triggered: a download
\* starts only from the trigger step, which follows the snapshot, so the
\* target's file is never in the snapshot, and wait_download never sleeps
\* with that file complete in the temp directory: it is seen as new at the
\* first poll after it appears.
C16_SnapshotBeforeTrigger ==
    /\ [](pc \in {"trigger", "await"} => \A f \in before : f.job # i)
    /\ [](pc \in {"navigate", "ready", "extract", "snapshot", "trigger"} => dl[i] = "none")
    /\ [][\A t \in DOMAIN dl : (dl[t] = "none" /\ dl'[t] # "none") =>
            (t = i /\ pc = "trigger" /\ pc' = "await" /\ before' = before)]_vars
    /\ [][(pc = "await" /\ elapsed < WAIT_SECS /\ OwnFile \in tmp.files) =>
            (pc' = "alloc" \/ (pc' = "await" /\ elapsed' = elapsed))]_vars

\* The download completed before the first poll and was returned by it.
C16_Witness ==
    /\ pc = "alloc" /\ i = 1
    /\ elapsed = 0
    /\ wav = [job |-> 1, part |-> FALSE]
    /\ before = {}

\* ------------------------------------------------------------ C17
\* C17: wait_download returns only a file of the temp directory that is
\* not in the snapshot and is no partial download; with nothing but
\* partial files beyond the snapshot it does not return: it polls on, or
\* times out.
C17_NoOldNoPartial ==
    /\ [][(pc = "await" /\ pc' = "alloc") =>
            (wav' \in tmp.files /\ wav' \notin before /\ ~wav'.part)]_vars
    /\ [][(pc = "await" /\ \A f \in tmp.files \ before : f.part) =>
            pc' \in {"await", "loop"}]_vars
    /\ [](pc \in {"alloc", "mkdir", "move"} => (wav \notin before /\ ~wav.part))
    /\ [](\A f \in before : ~f.part)

\* The second target: the first one's file is in the snapshot, the second's
\* was partial for a poll or more, and is returned once complete.
C17_Witness ==
    /\ pc = "alloc" /\ i = 2
    /\ before = {[job |-> 1, part |-> FALSE]}
    /\ [job |-> 1, part |-> FALSE] \in tmp.files
    /\ elapsed > 0
    /\ wav = [job |-> 2, part |-> FALSE]

\* ------------------------------------------------------------ C18
HandleSteps ==
    {"navigate", "ready", "extract", "snapshot", "trigger", "await", "alloc",
     "mkdir", "move", "append"}

\* C18: the targets are attempted one at a time in the order of the batch,
\* each once: the position moves by one, onto a target not yet attempted,
\* only when the target before it has ended; a target's outcome is set
\* once, by its own attempt, and a failed target is not taken up again; no
\* per-target error leaves the loop: the run goes on to the last target and
\* no exception is propagating when the loop is over.
C18_EachTargetOnce ==
    /\ [][i' # i => (/\ i' = i + 1 /\ pc = "loop" /\ pc' = "navigate"
                     /\ out[i'] = "todo"
                     /\ \A t \in 1..i : out[t] # "todo")]_vars
    /\ [][\A t \in DOMAIN out : out'[t] # out[t] =>
            (t = i /\ out[t] = "todo" /\ pc \in HandleSteps /\ pc' = "loop")]_vars
    /\ [][(pc \in HandleSteps /\ pc' \notin HandleSteps) => (pc' = "loop" /\ i' = i)]_vars
    /\ [](pc \in HandleSteps => (~exc /\ out[i] = "todo"))
    /\ [](\A t \in DOMAIN out : (t < i => out[t] # "todo") /\ (t > i => out[t] = "todo"))
    /\ []((i > 0 \/ pc = "loop") => ~exc)
    /\ []((pc \in {"finally", "rmtree", "done"} /\ ~exc) => \A t \in DOMAIN out : out[t] # "todo")
    /\ [](Len(log) = Cardinality({t \in DOMAIN out : out[t] = "failed"}))

\* Three targets: the first two failed, one error line each, the third done.
C18_Witness ==
    /\ pc = "done"
    /\ out = <<"failed", "failed", "done">>
    /\ log = <<[url |-> 1, reason |-> "navigate"], [url |-> 2, reason |-> "timeout"]>>
    /\ i = 3

\* ------------------------------------------------------------ C19
\* C19 as claimed: once the browser session was acquired, however run_batch
\* is left, the browser is quit and the temp download directory removed.
C19_ReleasedOnExit ==
    (pc \in {"done", "crashed"} /\ calls.restored # "unset") =>
        (browser = "quit" /\ ~tmp.exists)

\* ------------------------------------------------------------ extract_meta on its own
\* A page: the cast bar (div.movieCastActor), its <b> and its actor link,
\* an actor link elsewhere, the title link (a.white.pl-10), the line box
\* (div.highlight-box: none, without <b>, or with the <b> of a character),
\* and the "N secs" text.
Pages ==
    [cast : BOOLEAN, castB : BOOLEAN, castA : BOOLEAN, otherA : BOOLEAN,
     title : BOOLEAN, box : {"none", "plain", "Rick", "Ilsa"}, dur : BOOLEAN]

\* A cast bar that is not there has nothing in it.
WellFormed(pg) == pg.cast \/ (~pg.castB /\ ~pg.castA)

\* quote_box.get_text(" ", strip=True)
QuoteTxt(pg) ==
    IF pg.box = "plain" THEN <<"line">>
    ELSE <<pg.box, " ", ":", " ", "line">>

RECURSIVE DropSpaces(_)
DropSpaces(t) == IF t # <<>> /\ Head(t) = " " THEN DropSpaces(Tail(t)) ELSE t

\* re.sub(rf"^{re.escape(char)}\s*:\s*", "", quote_txt)
AfterColon(t, whole) == IF t # <<>> /\ Head(t) = ":" THEN DropSpaces(Tail(t)) ELSE whole

ReSubChar(char, txt) ==
    IF txt # <<>> /\ Head(txt) = char THEN AfterColon(DropSpaces(Tail(txt)), txt) ELSE txt

\* char: the <b> of the cast bar when the bar has an actor link, which
\* raises without a <b>; else the <b> of the line box, "" without one.
CharOf(pg) ==
    IF pg.cast /\ pg.castA
    THEN IF pg.castB THEN [raised |-> FALSE, char |-> "Rick"]
         ELSE [raised |-> TRUE, char |-> ""]
    ELSE [raised |-> FALSE,
          char |-> IF pg.box \in {"Rick", "Ilsa"} THEN pg.box ELSE ""]

\* actor: the cast bar's link, else any actor link, else "Unknown".
ActorIn(pg) ==
    IF pg.cast /\ pg.castA THEN <<"Bogart">>
    ELSE IF pg.otherA THEN <<"Bergman">> ELSE <<"Unknown">>

DurationIn(pg) == IF pg.dur THEN <<"12.5">> ELSE <<"0.0">>

Raised == [raised |-> TRUE, actor |-> <<>>, movie |-> <<>>, line |-> <<>>, dur |-> <<>>]

MetaWith(pg, c) ==
    IF c.raised \/ ~pg.title \/ pg.box = "none" THEN Raised
    ELSE [raised |-> FALSE,
          actor |-> ActorIn(pg),
          movie |-> <<"Casablanca">>,
          line |-> IF c.char # "" THEN ReSubChar(c.char, QuoteTxt(pg)) ELSE QuoteTxt(pg),
          dur |-> DurationIn(pg)]

\* extract_meta(html)
ExtractMeta(pg) == MetaWith(pg, CharOf(pg))

InitMeta ==
    /\ Off
    /\ csv = PriorCsv(0)
    /\ lines = PriorLines(0)
    /\ marks = PriorMarks(0)
    /\ csv0 = PriorCsv(0)
    /\ atStart = [csv |-> PriorCsv(0), lines |-> PriorLines(0), nids |-> 0]
    /\ rec \in {pg \in Pages : WellFormed(pg)}
    /\ back = <<>>
    /\ ret = {}
    /\ meta = {}
    /\ QwenIdle

CallExtractMeta ==
    /\ pc = "off"
    /\ meta = {}
    /\ meta' = {ExtractMeta(rec)}
    /\ UNCHANGED <<world, cookies, run, urls, pc, i, browser, tmp, dl, local,
                   secsLeft, exc, out, log, hist, calls, rec, back, ret, cli, qwen>>

NextMeta == CallExtractMeta

SpecMeta == InitMeta /\ [][NextMeta]_vars

\* ------------------------------------------------------------ C20
\* C20 as claimed: extract_meta raises if and only if the title or the
\* line box is missing; with both there it returns a complete record
\* whatever else the page has or lacks: the actor of the cast bar, else of
\* any actor link, else "Unknown"; the duration, else 0.0.
C20_RaisesOnlyOnRequired ==
    \A m \in meta :
        /\ m.raised <=> (~rec.title \/ rec.box = "none")
        /\ ~m.raised => (/\ m.actor = ActorIn(rec)
                         /\ m.movie # <<>> /\ m.line # <<>>
                         /\ m.dur = DurationIn(rec))

\* ------------------------------------------------------------ identify_speakers
MaxClips == 3
MaxKills == 2

\* Everything of script.py, which this program leaves alone.
others ==
    <<world, cookies, run, urls, pc, i, browser, tmp, dl, local, secsLeft, exc,
      out, log, hist, calls, pure, cli>>

\* sorted(root_dir.rglob("*.wav")), as paths relative to root_dir.
WavPaths ==
    SubSeq(<<"01.wav", "02.wav", "03.wav", "04.wav", "05.wav">>, 1, MaxClips)

\* What analyse_clip may return (it samples), or the text of its error.
Guesses == {"Bogart", "Bergman", "ERROR: x"}

JsonPunct == {"{", "}", ":", ","}

KeysOf(res) == {res[j].k : j \in 1..Len(res)}

\* results[key] = value
Put(res, key, value) ==
    IF key \in KeysOf(res)
    THEN [j \in 1..Len(res) |-> IF res[j].k = key THEN [k |-> key, v |-> value] ELSE res[j]]
    ELSE Append(res, [k |-> key, v |-> value])

RECURSIVE Entries(_)
Entries(res) ==
    IF res = <<>> THEN <<>>
    ELSE IF Len(res) = 1 THEN <<res[1].k, ":", res[1].v>>
    ELSE Entries(SubSeq(res, 1, Len(res) - 1))
         \o <<",", res[Len(res)].k, ":", res[Len(res)].v>>

\* json.dumps(results, indent=2, ensure_ascii=False)
Dumps(res) == <<"{">> \o Entries(res) \o <<"}">>

RECURSIVE LoadFrom(_, _, _)
\* The members of the object from position pos on; {} when json.load raises.
LoadFrom(text, pos, acc) ==
    IF pos + 3 > Len(text) THEN {}
    ELSE IF text[pos] \in JsonPunct \/ text[pos + 1] # ":" \/ text[pos + 2] \in JsonPunct
    THEN {}
    ELSE IF text[pos + 3] = "}"
    THEN IF pos + 3 = Len(text) THEN {Put(acc, text[pos], text[pos + 2])} ELSE {}
    ELSE IF text[pos + 3] = ","
    THEN LoadFrom(text, pos + 4, Put(acc, text[pos], text[pos + 2]))
    ELSE {}

\* json.load(f): the dict as a one-element set, {} when it raises.
Loads(text) ==
    IF text = <<>> \/ text[1] # "{" THEN {}
    ELSE IF text = <<"{", "}">> THEN {<<>>}
    ELSE LoadFrom(text, 2, <<>>)

LoadedOr(empty, loaded) == IF loaded = {} THEN empty ELSE CHOOSE r \in loaded : TRUE

InitQwen ==
    /\ Off
    /\ csv = PriorCsv(0)
    /\ lines = PriorLines(0)
    /\ marks = PriorMarks(0)
    /\ csv0 = PriorCsv(0)
    /\ atStart = [csv |-> PriorCsv(0), lines |-> PriorLines(0), nids |-> 0]
    /\ rec = <<>> /\ back = <<>> /\ ret = {} /\ meta = {}
    /\ qpc = "load"
    /\ results = <<>>
    /\ outFile = [exists |-> FALSE, text |-> <<>>]
    /\ wavAt = 0
    /\ durable = <<>>
    /\ redone = FALSE
    /\ kills = 0

\* results = {}; if out_path.exists(): try json.load, except: print.
LoadResults ==
    /\ qpc = "load"
    /\ results' = IF outFile.exists THEN LoadedOr(<<>>, Loads(outFile.text)) ELSE <<>>
    /\ wavAt' = 0
    /\ qpc' = "loop"
    /\ UNCHANGED <<others, outFile, durable, redone, kills>>

\* for idx, wav_path in enumerate(wav_paths, 1): skip what is in results.
NextWav ==
    /\ qpc = "loop"
    /\ IF wavAt < Len(WavPaths)
       THEN /\ wavAt' = wavAt + 1
            /\ qpc' = IF WavPaths[wavAt + 1] \in KeysOf(results) THEN "loop" ELSE "analyse"
       ELSE wavAt' = wavAt /\ qpc' = "done"
    /\ UNCHANGED <<others, results, outFile, durable, redone, kills>>

\* guess = analyse_clip(...), or "ERROR: ..."; results[rel_path] = guess
AnalyseClip ==
    /\ qpc = "analyse"
    /\ \E g \in Guesses : results' = Put(results, WavPaths[wavAt], g)
    /\ redone' = (redone \/ WavPaths[wavAt] \in KeysOf(durable))
    /\ qpc' = "open"
    /\ UNCHANGED <<others, outFile, wavAt, durable, kills>>

\* out_path.write_text(...): the file is opened for writing, which empties it.
OpenForWrite ==
    /\ qpc = "open"
    /\ outFile' = [exists |-> TRUE, text |-> <<>>]
    /\ qpc' = "write"
    /\ UNCHANGED <<others, results, wavAt, durable, redone, kills>>

\* out_path.write_text(...): the text is written and the file closed.
WriteText ==
    /\ qpc = "write"
    /\ outFile' = [exists |-> TRUE, text |-> Dumps(results)]
    /\ durable' = results
    /\ qpc' = "loop"
    /\ UNCHANGED <<others, results, wavAt, redone, kills>>

\* The process is killed (a crash, an OOM): during the write, any part of
\* the text short of all of it may have reached the file.
Kill ==
    /\ qpc \in {"load", "loop", "analyse", "open", "write"}
    /\ kills < MaxKills
    /\ kills' = kills + 1
    /\ qpc' = "killed"
    /\ IF qpc = "write"
       THEN \E n \in 0..(Len(Dumps(results)) - 1) :
              outFile' = [exists |-> TRUE, text |-> SubSeq(Dumps(results), 1, n)]
       ELSE outFile' = outFile
    /\ UNCHANGED <<others, results, wavAt, durable, redone>>

\* The program is started again, same input directory and output file.
Restart ==
    /\ qpc = "killed"
    /\ qpc' = "load"
    /\ results' = <<>>
    /\ wavAt' = 0
    /\ UNCHANGED <<others, outFile, durable, redone, kills>>

NextQwen ==
    \/ LoadResults
    \/ NextWav
    \/ AnalyseClip
    \/ OpenForWrite
    \/ WriteText
    \/ Kill
    \/ Restart

SpecQwen == InitQwen /\ [][NextQwen]_vars

\* ------------------------------------------------------------ C21
\* C21 as claimed: the process killed at any point, the write of the
\* results file included, and started again, every result that a completed
\* write had recorded is in the results with its value, and no clip with
\* such a result is analysed again.
C21_ProgressSurvivesCrash ==
    /\ ~redone
    /\ qpc \in {"loop", "analyse", "open", "write", "done"} =>
         \A j \in 1..Len(durable) : \E h \in 1..Len(results) : results[h] = durable[j]

====
